---- MODULE Spec2Model ----
(***************************************************************************)
(* Model of src/trade_map_Li-Co.py: the Streamlit trade-map script.        *)
(*                                                                         *)
(* One run of the script binds `data` at line 115 (data = load_data(),     *)
(* memoised by @st.cache_data), reads the selections (118-127), shows the  *)
(* HS description (148-151), computes `subset` (156-173) and renders or    *)
(* reports "no data" (175-195).  Every user interaction reruns the script  *)
(* in a fresh namespace; only the st.cache_data memo survives a rerun.     *)
(*                                                                         *)
(* Lines 79-96 follow the two returns of country_to_iso3 and are never     *)
(* executed.  Lines 99-111 name `subset` and `data` before either is bound *)
(* (line 113 is a stray `return`): whatever they would do is overwritten   *)
(* by the bindings at 115, 158 and 167 before any query reads it.  They    *)
(* are modelled as operators (country_fix, partner_iso3_of, clip_netwgt,   *)
(* is_dropped) which no action of the run applies.                         *)
(*                                                                         *)
(* Strings are sequences of pieces: a piece is a single character (the     *)
(* period column) or a whole word, and " " is a whitespace character.      *)
(* Column names are taken as already normalised (lines 40-45).             *)
(***************************************************************************)
EXTENDS Integers, Sequences, FiniteSets, TLC

VARIABLES source, cache, changes, firstLoad,
          data, sel, notice, subset, outcome, pc,
          lookup, call

vars == <<source, cache, changes, firstLoad,
          data, sel, notice, subset, outcome, pc, lookup, call>>

sessionVars == <<source, cache, changes, firstLoad,
                 data, sel, notice, subset, outcome, pc>>

resolverVars == <<lookup, call>>

----------------------------------------------------------------------------
(* Bounds *)

\* rows in the remote CSV
MaxRows == 2

\* times the remote CSV changes during a session
MaxChanges == 1

----------------------------------------------------------------------------
(* Strings and cells *)

S(w) == <<w>>

IsSpace(c) == c = " "

RECURSIVE lstrip(_)
lstrip(s) == IF s # <<>> /\ IsSpace(Head(s)) THEN lstrip(Tail(s)) ELSE s

RECURSIVE rstrip(_)
rstrip(s) ==
    IF s # <<>> /\ IsSpace(s[Len(s)]) THEN rstrip(SubSeq(s, 1, Len(s) - 1)) ELSE s

\* str.strip()
strip(s) == rstrip(lstrip(s))

\* str[:4]
first4(s) == SubSeq(s, 1, IF Len(s) < 4 THEN Len(s) ELSE 4)

\* str(None), what an empty selectbox yields once passed through str()
NoneStr == S("None")

\* netwgt cells: a number, a missing value, an infinity, unparseable text
Num(n) == [k |-> "num", v |-> n]
NaN == [k |-> "nan", v |-> 0]
Inf == [k |-> "inf", v |-> 0]
Txt == [k |-> "txt", v |-> 0]

\* None or NaN in a text column
Null == "null"

P201301 == <<"2", "0", "1", "3", "0", "1">>
P201302 == <<"2", "0", "1", "3", "0", "2">>
P201401 == <<"2", "0", "1", "4", "0", "1">>

----------------------------------------------------------------------------
(* The remote CSV *)

RequiredCols == {"period", "cmdcode", "reporter", "partner", "netwgt"}

Row(p, c, r, n, w, i) ==
    [period |-> p, cmdcode |-> c, reporter |-> r, partner |-> n,
     netwgt |-> w, partner_iso3 |-> i]

\* the rows a CSV is built from: padded text, an alias pair, an aggregate
\* partner, negative, missing, infinite and unparseable weights
RawRows ==
    { Row(P201301, S("283691"), S("Japan"), S("Chile"), Num(100), "CHL"),
      Row(<<" ">> \o P201302, <<" ", "283691">>, S("Japan"),
          <<"Chile", " ">>, Num(200), "CHL"),
      Row(P201401, S("999999"), S("Japan"), S("Korea, Rep."), Num(-5), "KOR"),
      Row(P201401, S("999999"), <<"Japan", " ">>, S("Republic of Korea"),
          Num(7), "KOR"),
      Row(P201301, S("283691"), S("Japan"), S("Other Asia, nes"), Txt, Null),
      Row(P201302, S("283691"), S("China"), S("Chile"), NaN, "CHL"),
      Row(P201401, S("283691"), S("China"), S("Chile"), Inf, "CHL") }

RECURSIVE SeqsUpTo(_, _)
SeqsUpTo(X, n) ==
    IF n = 0 THEN {<<>>}
    ELSE LET shorter == SeqsUpTo(X, n - 1)
         IN shorter \cup {Append(s, x) : s \in shorter, x \in X}

\* a CSV with the documented columns and, possibly, a partner_iso3 column
Sources ==
    [cols : {RequiredCols, RequiredCols \cup {"partner_iso3"}},
     rows : SeqsUpTo(RawRows, MaxRows)]

----------------------------------------------------------------------------
(* Tables (DataFrames) *)

\* a name not bound in the script's namespace
Unbound == [bound |-> FALSE, err |-> "", cols |-> {}, obj |-> FALSE, rows |-> <<>>]

Table(c, o, rs) == [bound |-> TRUE, err |-> "", cols |-> c, obj |-> o, rows |-> rs]

\* a statement that raised instead of binding its target
Raised(e) == [bound |-> FALSE, err |-> e, cols |-> {}, obj |-> FALSE, rows |-> <<>>]

\* the value of a field whose column the table does not have
NoColumn == "<no column>"

Indices(t) == 1..Len(t.rows)

\* pd.read_csv: one record per line, indexed by position; a column holding
\* any unparseable text is read as an object column, not a numeric one
read_csv(src) ==
    Table(src.cols,
          \E i \in 1..Len(src.rows) : src.rows[i].netwgt.k = "txt",
          [i \in 1..Len(src.rows) |->
              [idx |-> i,
               period |-> src.rows[i].period,
               cmdcode |-> src.rows[i].cmdcode,
               reporter |-> src.rows[i].reporter,
               partner |-> src.rows[i].partner,
               netwgt |-> src.rows[i].netwgt,
               partner_iso3 |-> IF "partner_iso3" \in src.cols
                                THEN src.rows[i].partner_iso3 ELSE NoColumn,
               year |-> <<>>]])

\* data[col].astype(str).str.strip(), for a column the table has
stripped(t, col, v) == IF col \in t.cols THEN strip(v) ELSE v

\* load_data with the year taken from the period as read, before trimming
load_data_year_untrimmed(src) ==
    LET t == read_csv(src)
    IN Table(t.cols \cup {"year"}, t.obj,
             [i \in Indices(t) |->
                 [t.rows[i] EXCEPT
                     !.period = stripped(t, "period", @),
                     !.cmdcode = stripped(t, "cmdcode", @),
                     !.reporter = stripped(t, "reporter", @),
                     !.partner = stripped(t, "partner", @),
                     !.year = first4(t.rows[i].period)]])

\* load_data: read, trim the four text columns, derive year from period
load_data(src) ==
    LET t == read_csv(src)
        trimmed == [i \in Indices(t) |->
                       [t.rows[i] EXCEPT
                           !.period = stripped(t, "period", @),
                           !.cmdcode = stripped(t, "cmdcode", @),
                           !.reporter = stripped(t, "reporter", @),
                           !.partner = stripped(t, "partner", @)]]
    IN IF "period" \in t.cols
       THEN Table(t.cols \cup {"year"}, t.obj,
                  [i \in Indices(t) |->
                      [trimmed[i] EXCEPT !.year = first4(trimmed[i].period)]])
       ELSE Table(t.cols, t.obj, trimmed)

\* a loader that runs its body on every call
cache_data_none(memo, src) == load_data(src)

\* @st.cache_data: the body runs on the first call, later calls get the memo
cache_data(memo, src) == IF memo.bound THEN memo ELSE load_data(src)

----------------------------------------------------------------------------
(* Selections *)

\* sorted(data[col].unique()) as the options of a selectbox; an empty list
\* of options selects None
options(t, col) ==
    IF t.rows = <<>> THEN {NoneStr} ELSE {t.rows[i][col] : i \in Indices(t)}

ViewModes == {"monthly", "annual"}

NoSel == [view_mode |-> "", cmdcode |-> <<>>, reporter |-> <<>>,
          period |-> <<>>, year |-> <<>>]

Selections(t) ==
    [view_mode : ViewModes,
     cmdcode : options(t, "cmdcode"),
     reporter : options(t, "reporter"),
     period : options(t, "period"),
     year : options(t, "year")]

----------------------------------------------------------------------------
(* Country resolver *)

LookupError == "LookupError"

Codes == {"CHL", "KOR"}

PartnerNames ==
    {S("Chile"), S("Korea, Rep."), S("Republic of Korea"), S("Other Asia, nes")}

\* what pycountry.countries.lookup does with each name: an alpha_3 code or
\* a LookupError
Lookups == [PartnerNames -> Codes \cup {LookupError}]

\* pycountry's answers for the partner names of RawRows
Pycountry ==
    (S("Chile") :> "CHL") @@ (S("Korea, Rep.") :> LookupError)
    @@ (S("Republic of Korea") :> "KOR") @@ (S("Other Asia, nes") :> LookupError)

country_fix ==
    (S("Korea, Rep.") :> "KOR") @@ (S("Republic of Korea") :> "KOR")
    @@ (S("United States") :> "USA") @@ (S("Russian Federation") :> "RUS")
    @@ (S("Viet Nam") :> "VNM") @@ (S("Iran (Islamic Republic of)") :> "IRN")
    @@ (S("Lao People's Democratic Republic") :> "LAO")
    @@ (S("Czechia") :> "CZE") @@ (S("Dominican Rep.") :> "DOM")

\* country_to_iso3: the generic lookup, None on LookupError
country_to_iso3(name) ==
    IF lookup[name] = LookupError THEN Null ELSE lookup[name]

\* the unexecuted partner_iso3 assignment: the exception table first
partner_iso3_of(name) ==
    IF name \in DOMAIN country_fix THEN country_fix[name] ELSE country_to_iso3(name)

Idle == [st |-> "idle", name |-> <<>>, result |-> Null]

----------------------------------------------------------------------------
(* Unexecuted clean-up statements *)

\* to_numeric(errors='coerce'), inf to NaN, clip(lower=0) on one netwgt cell
clip_netwgt(w) ==
    IF w.k \in {"txt", "inf", "nan"} THEN NaN
    ELSE IF w.v < 0 THEN Num(0) ELSE w

\* the rows the two dropna statements would remove
is_dropped(r) ==
    \/ r.partner_iso3 \in {Null, NoColumn}
    \/ r.netwgt.k \in {"nan", "txt"}

----------------------------------------------------------------------------
(* HS descriptions *)

hs_description ==
    (S("283691") :> "Lithium carbonates")
    @@ (S("282520") :> "Lithium oxide and hydroxide")
    @@ (S("282619") :> "Fluorides (excl. of aluminium and mercury)")
    @@ (S("260500") :> "Cobalt ores and concentrates")
    @@ (S("282200") :> "Cobalt oxides and hydroxides; commercial cobalt oxides")
    @@ (S("810520") :> "Cobalt mattes and other intermediate products of cobalt metallurgy; unwrought cobalt; cobalt powders")

\* hs_desc with one description mistyped
hs_desc_typo ==
    (S("283691") :> "Lithium carbonate")
    @@ (S("282520") :> "Lithium oxide and hydroxide")

hs_desc ==
    (S("253090") :> "Arsenic sulfides, alunite, pozzuolana, earth colours and other mineral substances, n.e.s.")
    @@ (S("283691") :> "Lithium carbonates")
    @@ (S("282520") :> "Lithium oxide and hydroxide")
    @@ (S("282739") :> "Chlorides (excl. ammonium, calcium, magnesium, aluminium, nickel, and mercury chloride)")
    @@ (S("282690") :> "Fluorosilicates, fluoroaluminates and other complex fluorine salts (excl. sodium hexafluoroaluminate 'synthetic cryolite' and inorganic or organic compounds of mercury)")
    @@ (S("282619") :> "Fluorides (excl. of aluminium and mercury)")
    @@ (S("260500") :> "Cobalt ores and concentrates")
    @@ (S("282200") :> "Cobalt oxides and hydroxides; commercial cobalt oxides")
    @@ (S("810520") :> "Cobalt mattes and other intermediate products of cobalt metallurgy; unwrought cobalt; cobalt powders")

NoNotice == [kind |-> "none", text |-> ""]

\* st.info with the description, or st.warning that none is registered
describe(code) ==
    IF code \in DOMAIN hs_desc
    THEN [kind |-> "info", text |-> hs_desc[code]]
    ELSE [kind |-> "warning", text |-> "no description registered"]

----------------------------------------------------------------------------
(* Queries *)

\* the rows of the month: period, cmdcode and reporter equal the selection
month_rows(d, s) ==
    SelectSeq(d.rows, LAMBDA r : /\ r.period = s.period
                                 /\ r.cmdcode = s.cmdcode
                                 /\ r.reporter = s.reporter)

\* the rows of the year: year, cmdcode and reporter equal the selection
year_rows(d, s) ==
    SelectSeq(d.rows, LAMBDA r : /\ r.year = s.year
                                 /\ r.cmdcode = s.cmdcode
                                 /\ r.reporter = s.reporter)

\* a monthly branch that also applies the netwgt clean-up to its rows
monthly_clipped(d, s) ==
    LET m == month_rows(d, s)
    IN Table(d.cols, d.obj,
             [i \in 1..Len(m) |-> [m[i] EXCEPT !.netwgt = clip_netwgt(@)]])

\* monthly branch: a copy of the matching rows, columns and index kept
monthly(d, s) == Table(d.cols, d.obj, month_rows(d, s))

PartnerOrder ==
    <<S("Chile"), S("Korea, Rep."), S("Other Asia, nes"), S("Republic of Korea")>>

IsoOrder == <<"CHL", "KOR">>

Rank(order, x) == CHOOSE i \in 1..Len(order) : order[i] = x

\* lexicographic order of the group keys (partner, partner_iso3)
KeyLeq(a, b) ==
    \/ Rank(PartnerOrder, a[1]) < Rank(PartnerOrder, b[1])
    \/ /\ a[1] = b[1]
       /\ Rank(IsoOrder, a[2]) <= Rank(IsoOrder, b[2])

RECURSIVE SortKeys(_)
SortKeys(K) ==
    IF K = {} THEN <<>>
    ELSE LET least == CHOOSE a \in K : \A b \in K : KeyLeq(a, b)
         IN <<least>> \o SortKeys(K \ {least})

RECURSIVE SumNum(_, _)
SumNum(m, key) ==
    IF m = <<>> THEN 0
    ELSE (IF <<Head(m).partner, Head(m).partner_iso3>> = key /\ Head(m).netwgt.k = "num"
          THEN Head(m).netwgt.v ELSE 0) + SumNum(Tail(m), key)

\* GroupBy.sum of netwgt: missing values are skipped, an infinity absorbs,
\* and an object column does not add up to a number
group_sum(m, key, obj) ==
    IF obj THEN Txt
    ELSE IF \E i \in 1..Len(m) : /\ <<m[i].partner, m[i].partner_iso3>> = key
                                 /\ m[i].netwgt.k = "inf"
         THEN Inf
         ELSE Num(SumNum(m, key))

\* annual branch: groupby(['partner', 'partner_iso3']).sum() over the rows
\* of the year; a key column the table lacks is a KeyError, rows with a
\* null key are left out, groups come out in key order
annual(d, s) ==
    LET m == year_rows(d, s)
        keys == {<<m[i].partner, m[i].partner_iso3>> :
                    i \in {j \in 1..Len(m) : m[j].partner_iso3 # Null}}
        sorted == SortKeys(keys)
    IN IF "partner_iso3" \notin d.cols
       THEN Raised("KeyError")
       ELSE Table({"partner", "partner_iso3", "netwgt"}, d.obj,
                  [j \in 1..Len(sorted) |->
                      [idx |-> j,
                       partner |-> sorted[j][1],
                       partner_iso3 |-> sorted[j][2],
                       netwgt |-> group_sum(m, sorted[j], d.obj)]])

\* subset.empty check, then log10 and the choropleth: log10 of an object
\* column and a missing locations column both raise
show(t) ==
    IF t.rows = <<>> THEN "nodata"
    ELSE IF t.obj THEN "error"
    ELSE IF "partner_iso3" \notin t.cols THEN "error"
    ELSE "rendered"

----------------------------------------------------------------------------
(* One session: the script, rerun on every interaction *)

Init ==
    /\ source \in Sources
    /\ cache = Unbound
    /\ changes = 0
    /\ firstLoad = Unbound
    /\ data = Unbound
    /\ sel = NoSel
    /\ notice = NoNotice
    /\ subset = Unbound
    /\ outcome = "none"
    /\ pc = "load"
    /\ lookup = Pycountry
    /\ call = Idle

\* line 115: data = load_data()
Load ==
    /\ pc = "load"
    /\ data' = cache_data(cache, source)
    /\ cache' = data'
    /\ firstLoad' = IF firstLoad.bound THEN firstLoad ELSE data'
    /\ pc' = "select"
    /\ UNCHANGED <<source, changes, sel, notice, subset, outcome, lookup, call>>

\* lines 118-127: the radio and the four selectboxes
Select ==
    /\ pc = "select"
    /\ sel' \in Selections(data)
    /\ pc' = "describe"
    /\ UNCHANGED <<source, cache, changes, firstLoad, data, notice, subset,
                   outcome, lookup, call>>

\* lines 148-151
Describe ==
    /\ pc = "describe"
    /\ notice' = describe(sel.cmdcode)
    /\ pc' = "query"
    /\ UNCHANGED <<source, cache, changes, firstLoad, data, sel, subset,
                   outcome, lookup, call>>

\* lines 156-163
Monthly ==
    /\ pc = "query"
    /\ sel.view_mode = "monthly"
    /\ subset' = monthly(data, sel)
    /\ pc' = "show"
    /\ UNCHANGED <<source, cache, changes, firstLoad, data, sel, notice,
                   outcome, lookup, call>>

\* lines 165-173; an exception ends the run
Annual ==
    /\ pc = "query"
    /\ sel.view_mode = "annual"
    /\ subset' = annual(data, sel)
    /\ outcome' = IF subset'.err # "" THEN "error" ELSE outcome
    /\ pc' = IF subset'.err # "" THEN "done" ELSE "show"
    /\ UNCHANGED <<source, cache, changes, firstLoad, data, sel, notice,
                   lookup, call>>

\* lines 175-195
Show ==
    /\ pc = "show"
    /\ outcome' = show(subset)
    /\ pc' = "done"
    /\ UNCHANGED <<source, cache, changes, firstLoad, data, sel, notice,
                   subset, lookup, call>>

\* a widget interaction: the script starts over in a fresh namespace
Rerun ==
    /\ pc = "done"
    /\ data' = Unbound
    /\ subset' = Unbound
    /\ sel' = NoSel
    /\ notice' = NoNotice
    /\ outcome' = "none"
    /\ pc' = "load"
    /\ UNCHANGED <<source, cache, changes, firstLoad, lookup, call>>

\* the file behind the download link gains a row between two runs
SourceChanges ==
    /\ pc = "done"
    /\ changes < MaxChanges
    /\ Len(source.rows) < MaxRows
    /\ \E r \in RawRows : source' = [source EXCEPT !.rows = Append(@, r)]
    /\ changes' = changes + 1
    /\ UNCHANGED <<cache, firstLoad, data, sel, notice, subset, outcome, pc,
                   lookup, call>>

Next ==
    \/ Load
    \/ Select
    \/ Describe
    \/ Monthly
    \/ Annual
    \/ Show
    \/ Rerun
    \/ SourceChanges

Spec == Init /\ [][Next]_vars

----------------------------------------------------------------------------
(* The resolver on its own: any behaviour of the generic lookup *)

InitResolver ==
    /\ source = [cols |-> RequiredCols, rows |-> <<>>]
    /\ cache = Unbound
    /\ changes = 0
    /\ firstLoad = Unbound
    /\ data = Unbound
    /\ sel = NoSel
    /\ notice = NoNotice
    /\ subset = Unbound
    /\ outcome = "none"
    /\ pc = "load"
    /\ lookup \in Lookups
    /\ call = Idle

\* a call of country_to_iso3(name)
Resolve ==
    /\ call.st = "idle"
    /\ \E n \in PartnerNames :
          call' = [st |-> "returned", name |-> n, result |-> country_to_iso3(n)]
    /\ UNCHANGED <<sessionVars, lookup>>

Return ==
    /\ call.st = "returned"
    /\ call' = Idle
    /\ UNCHANGED <<sessionVars, lookup>>

NextResolver ==
    \/ Resolve
    \/ Return

SpecResolver == InitResolver /\ [][NextResolver]_vars

----------------------------------------------------------------------------
(* Properties *)

\* the run has computed (or failed to compute) its subset
Queried == pc \in {"show", "done"}

Unresolvable(name) ==
    name \notin DOMAIN country_fix /\ lookup[name] = LookupError

\* C1: resolving a name that is a key of country_fix returns the code the
\* table maps it to, whatever the generic lookup answers for that name.
C1_ExceptionTableFirst ==
    (call.st = "returned" /\ call.name \in DOMAIN country_fix)
        => call.result = country_fix[call.name]

\* C2: the dataset the queries read holds no record with a null
\* partner_iso3 and no record with a null or unparseable net weight.
C2_LoadedDatasetClean ==
    data.bound => \A i \in Indices(data) : ~is_dropped(data.rows[i])

\* C3: when records match the selected year, commodity and reporter, the
\* annual result has exactly one row per (partner, partner_iso3) pair of
\* those records, and the row's net weight is the sum over the records of
\* that pair.
C3_AnnualSumConsistent ==
    (Queried /\ sel.view_mode = "annual" /\ year_rows(data, sel) # <<>>) =>
        LET m == year_rows(data, sel)
            pairs == {<<m[i].partner, m[i].partner_iso3>> : i \in 1..Len(m)}
        IN /\ subset.bound
           /\ Len(subset.rows) = Cardinality(pairs)
           /\ \A k \in pairs :
                 \E j \in Indices(subset) :
                    /\ subset.rows[j].partner = k[1]
                    /\ subset.rows[j].partner_iso3 = k[2]
                    /\ subset.rows[j].netwgt = Num(SumNum(m, k))
           /\ \A i \in 1..Len(m) : m[i].netwgt.k = "num"

C5_DatasetLoadedOnce ==
    /\ pc # "load" => (data = firstLoad /\ cache = firstLoad)
    /\ (pc = "load" /\ firstLoad.bound) => cache = firstLoad
    /\ (Queried /\ sel.view_mode = "monthly") => subset = monthly(firstLoad, sel)
    /\ (Queried /\ sel.view_mode = "annual") => subset = annual(firstLoad, sel)

\* a query of a run started after the file changed still reads the rows
\* of the first load
C5_Witness ==
    /\ pc = "show"
    /\ changes > 0
    /\ subset.rows # <<>>
    /\ data = firstLoad
    /\ data # load_data(source)

\* C6: a query on a non-empty dataset whose selection matches no record
\* ends in the "no data" state, not in an error and not in the log
\* transform or the rendering.
C6_NoMatchIsNoData ==
    (/\ pc = "done"
     /\ data.rows # <<>>
     /\ IF sel.view_mode = "monthly"
        THEN month_rows(data, sel) = <<>>
        ELSE year_rows(data, sel) = <<>>)
        => outcome = "nodata"

\* C7: a name neither in country_fix nor known to the generic lookup
\* resolves to null, and no query result holds a record of such a partner.
C7_UnresolvableExcluded ==
    /\ (call.st = "returned" /\ Unresolvable(call.name)) => call.result = Null
    /\ subset.bound =>
          \A j \in Indices(subset) : ~Unresolvable(subset.rows[j].partner)

\* C8: every record of the dataset has a trimmed period and a year equal
\* to the first four characters of that period.
C8_YearIsPeriodPrefix ==
    data.bound =>
        \A i \in Indices(data) :
           /\ data.rows[i].period = strip(data.rows[i].period)
           /\ data.rows[i].year = first4(data.rows[i].period)
           /\ data.rows[i].period = P201302 => data.rows[i].year = <<"2", "0", "1", "3">>

\* a loaded record whose period arrived padded
C8_Witness ==
    /\ data.bound
    /\ pc = "query"
    /\ \E i \in Indices(data) :
          /\ firstLoad.rows[i].period = P201302
          /\ \E r \in RawRows : /\ strip(r.period) = P201302
                                /\ r.period # P201302
                                /\ strip(r.partner) = data.rows[i].partner
                                /\ r.netwgt = data.rows[i].netwgt

\* C9: no record of the dataset has a negative or an infinite net weight.
C9_WeightsFiniteNonNegative ==
    data.bound =>
        \A i \in Indices(data) :
           /\ data.rows[i].netwgt.k # "inf"
           /\ data.rows[i].netwgt.k = "num" => data.rows[i].netwgt.v >= 0

\* C10: the selected code gets its description when the table has it
\* ("283691": "Lithium carbonates") and the warning when it has not
\* ("999999"); hs_description and hs_desc agree where both have the code.
C10_DescriptionTotal ==
    /\ pc \in {"query", "show", "done"} =>
          /\ notice.kind \in {"info", "warning"}
          /\ sel.cmdcode \in DOMAIN hs_description =>
                notice = [kind |-> "info", text |-> hs_description[sel.cmdcode]]
          /\ sel.cmdcode = S("283691") => notice.text = "Lithium carbonates"
          /\ sel.cmdcode \in {S("999999"), NoneStr} => notice.kind = "warning"
    /\ \A c \in DOMAIN hs_description \cap DOMAIN hs_desc :
          hs_description[c] = hs_desc[c]
    /\ DOMAIN hs_description \subseteq DOMAIN hs_desc

\* the description of 283691 is on display
C10_Witness ==
    /\ pc = "query"
    /\ sel.cmdcode = S("283691")
    /\ notice.kind = "info"

====
